---- MODULE Spec2Model ----
(***************************************************************************)
(* tele-scope (src/python/tele_scope.py): move the uncommitted changes of  *)
(* the current branch to an upstream branch.  The script stashes the       *)
(* changes, checks the upstream branch out, applies the stash, commits and *)
(* pushes, returns to the original branch, rebases it and drops the stash. *)
(*                                                                         *)
(* The state is the git repository (checked-out branch, working tree,      *)
(* index, stash list, commits of the upstream branch, what was pushed),    *)
(* the fields of the TeleScope object, the position of the driver          *)
(* (lines 239-269) and the exception / exit status it ends with.  A run    *)
(* of the class through its documented default applyChanges(files=None)    *)
(* is the same driver with files = None.                                   *)
(*                                                                         *)
(* Every git command either succeeds or raises git.GitCommandError; which  *)
(* of the two happens is an input of the action that issues it.            *)
(***************************************************************************)
EXTENDS Integers, Sequences, FiniteSets, TLC

\* ---------------------------------------------------------------- bounds
NumPaths == 2
MaxFiles == 2
MaxPreStash == 1
MaxRuns == 2

Paths == 1..NumPaths

\* ------------------------------------------------------------ ExitStatus
SUCCESS == 0
BRANCHERROR == 1
STASHERROR == 2
COMMITERROR == 3
REMOTERROR == 4
CONFLICTS == 5

\* exit status of an interpreter that runs off the end of the script
FELLOFFEND == 0
\* no exit status yet: the process is still running
RUNNING == 0 - 1

VARIABLES
    pc,        \* position of the driver: "start", "stash", "apply", "rebase", "exit"
    inRepo,    \* git.Repo(here) finds a repository
    files,     \* args.files, the files argument of applyChanges
    self,      \* fields of the TeleScope object
    repo,      \* the git repository
    ops,       \* git commands issued so far, in order
    err,       \* exception that ended the run, NoErr if none
    out,       \* what the driver printed on stdout
    exitCode,  \* exit status of the process, RUNNING until it ends
    run        \* which run of the script in this repository this is

vars == <<pc, inRepo, files, self, repo, ops, err, out, exitCode, run>>

\* ------------------------------------------------------------- data types
NoErr == [kind |-> "none", at |-> "none"]
Raise(kind, at) == [kind |-> kind, at |-> at]

\* the paths of S as a list, in increasing order
RECURSIVE Ascending(_)
Ascending(S) ==
    IF S = {} THEN <<>>
    ELSE LET m == CHOOSE x \in S : \A y \in S : x <= y
         IN  <<m>> \o Ascending(S \ {m})

\* the value of the files argument: None (applyChanges' default) or a list
FilesNone == [isNone |-> TRUE, list |-> <<>>]
FilesList(q) == [isNone |-> FALSE, list |-> q]
FileInputs ==
    {FilesNone} \cup
    {FilesList(Ascending(S)) : S \in {T \in SUBSET Paths : Cardinality(T) <= MaxFiles}}

Range(q) == {q[i] : i \in 1..Len(q)}

PreStashEntry == [changes |-> {1}, added |-> {}, mine |-> FALSE]

RECURSIVE PreStash(_)
PreStash(n) == IF n = 0 THEN <<>> ELSE <<PreStashEntry>> \o PreStash(n - 1)

NoSelf ==
    [thisbranch |-> "None", upstream |-> "None", remote |-> "None",
     user |-> "None", email |-> "None", norebase |-> FALSE,
     noclear |-> FALSE, reapply |-> FALSE, pull |-> FALSE]

\* ------------------------------------------------------------------ Init
\* The repository the script is started in: the original branch is checked
\* out, the working tree has uncommitted changes to the paths in worktree,
\* of which the paths in index are new files already added to the index.
Init ==
    /\ pc = "start"
    /\ inRepo \in BOOLEAN
    /\ files = FilesNone
    /\ self = NoSelf
    /\ \E wt \in SUBSET Paths, ix \in SUBSET Paths, n \in 0..MaxPreStash :
          /\ ix \subseteq wt
          /\ repo = [head |-> "local", worktree |-> wt, index |-> ix,
                     stashList |-> PreStash(n), upCommits |-> <<>>,
                     localOnto |-> 0, pushed |-> 0, rebasing |-> FALSE]
    /\ ops = <<>>
    /\ err = NoErr
    /\ out = ""
    /\ exitCode = RUNNING
    /\ run = 1

\* ------------------------------------------------------- git, as the code uses it
Res(slf, rp, lg, e) == [self |-> slf, repo |-> rp, ops |-> lg, err |-> e]

\* git stash: "No local changes to save" on a clean tree, else the changes
\* are saved as the top entry and the working tree and index are cleaned.
GitStash(rp) ==
    [rp EXCEPT !.stashList = <<[changes |-> rp.worktree, added |-> rp.index,
                                mine |-> TRUE]>> \o @,
               !.worktree = {},
               !.index = {}]

\* git stash pop in place of git stash apply: the entry leaves the list
GitStashPop(rp) ==
    [rp EXCEPT !.worktree = @ \cup rp.stashList[1].changes,
               !.index = @ \cup rp.stashList[1].added,
               !.stashList = Tail(@)]

\* git stash apply (no --index): the top entry's changes come back into the
\* working tree; only the new files it had added are in the index again.
\* The entry stays in the list.
GitStashApply(rp) ==
    [rp EXCEPT !.worktree = @ \cup rp.stashList[1].changes,
               !.index = @ \cup rp.stashList[1].added]

\* a stash apply that stopped on a conflict: the working tree is either
\* left as it was or left with the entry's changes and the conflicts
GitStashApplyFailed(rp, touched) ==
    IF touched THEN [rp EXCEPT !.worktree = @ \cup rp.stashList[1].changes]
    ELSE rp

\* git add <path>: the path's changes, if it has any, go to the index
GitAdd(rp, paths) == [rp EXCEPT !.index = @ \cup (paths \cap rp.worktree)]

\* git commit: the index becomes a new commit of the checked-out branch
GitCommit(rp, author) ==
    [rp EXCEPT !.upCommits = Append(@, [paths |-> rp.index, author |-> author]),
               !.worktree = @ \ rp.index,
               !.index = {}]

GitPush(rp) == [rp EXCEPT !.pushed = Len(rp.upCommits)]

\* repo.head.reset(): a mixed reset, the index is emptied, the tree is kept
GitReset(rp) == [rp EXCEPT !.index = {}]

GitCheckout(rp, branch) == [rp EXCEPT !.head = branch]

\* git rebase <upstream>: the branch is replayed on the upstream commits
GitRebase(rp) == [rp EXCEPT !.localOnto = Len(rp.upCommits)]

\* a rebase that stopped on a conflict is left in progress, which rebasing
\* records; head goes on naming the branch last checked out, the one being
\* rebased
GitRebaseFailed(rp, conflict) == [rp EXCEPT !.rebasing = conflict]

GitStashDrop(rp) == [rp EXCEPT !.stashList = Tail(@)]

\* ---------------------------------------------------------- the exceptions
\* BranchError.__init__ calls super().__init, which the class body mangles
\* to _BranchError__init: constructing the exception raises AttributeError.
BranchError(at) == Raise("AttributeError", at)
StashError(at) == Raise("StashError", at)
CommitError(at) == Raise("CommitError", at)
RemoteError(at) == Raise("RemoteError", at)
ConflictError(at) == Raise("ConflictError", at)

\* ------------------------------------------------------------- TeleScope
\* str.lower() on the values the remote argument takes in the model
Lower(s) == IF s \in {"None", "NONE", "none"} THEN "none" ELSE s

RemoteArgs == {"None", "none", "origin", "nosuch"}
ConfiguredRemotes == {"origin"}

\* getOption: the explicit value if given, else the configured one if the
\* reader has the option, else None
getOption(hasOption, configured, value) ==
    IF value = "None" /\ hasOption THEN configured ELSE value

\* stashChanges without the test of line 92 for git's message
stashChangesUnchecked(slf, rp, lg, outcome) ==
    LET lg1 == Append(lg, "stash")
    IN  IF rp.worktree # {} /\ outcome # "ok"
        THEN Res(slf, rp, lg1, StashError("stash"))
        ELSE IF rp.worktree = {} THEN Res(slf, rp, lg1, NoErr)
        ELSE Res(slf, GitStash(rp), lg1, NoErr)

\* stashChanges; outcome is what git stash did: "ok" or "giterr"
stashChanges(slf, rp, lg, outcome) ==
    LET lg1 == Append(lg, "stash")
    IN  IF rp.worktree = {}
        THEN Res(slf, rp, lg1, StashError("No local changes to save"))
        ELSE IF outcome # "ok"
        THEN Res(slf, rp, lg1, StashError("stash"))
        ELSE Res(slf, GitStash(rp), lg1, NoErr)

\* switchBranch; outcome: "ok", "notfound" (IndexError) or "giterr"
switchBranch(slf, rp, lg, branch, outcome) ==
    LET lg1 == Append(lg, "checkout " \o branch)
    IN  IF outcome = "notfound" THEN Res(slf, rp, lg, BranchError("switchBranch"))
        ELSE IF outcome # "ok" THEN Res(slf, rp, lg1, BranchError("switchBranch"))
        ELSE Res(slf, GitCheckout(rp, branch), lg1, NoErr)

\* the arguments of the successive git add calls: the working directory
\* (every path) when files is None, else one call per listed file
AddTargets(fs) ==
    IF fs.isNone THEN <<Paths>>
    ELSE [i \in 1..Len(fs.list) |-> {fs.list[i]}]

\* lines 135-139: git add for each target in turn; the call number failAt
\* (0: none) raises GitCommandError, and the calls before it have staged
RECURSIVE addLoop(_, _, _, _, _)
addLoop(rp, lg, targets, k, failAt) ==
    IF k > Len(targets) THEN [repo |-> rp, ops |-> lg, failed |-> FALSE]
    ELSE IF k = failAt THEN [repo |-> rp, ops |-> Append(lg, "add"), failed |-> TRUE]
    ELSE addLoop(GitAdd(rp, targets[k]), Append(lg, "add"), targets, k + 1, failAt)

\* lines 141-146
authorstring(slf) ==
    IF slf.email = "None" THEN slf.user
    ELSE IF slf.user = "None" THEN slf.email
    ELSE slf.user \o " <" \o slf.email \o ">"

\* backoutChanges: the reset, then self.active_branch, an attribute the
\* TeleScope object does not have: AttributeError before any checkout
backoutChanges(slf, rp, lg, o) ==
    LET lg1 == Append(lg, "reset")
    IN  IF o.reset # "ok" THEN Res(slf, rp, lg1, Raise("GitCommandError", "reset"))
        ELSE Res(slf, GitReset(rp), lg1, Raise("AttributeError", "active_branch"))

\* lines 153-161 without the test of line 154: the push is attempted on
\* self.remote even when it is None
pushAndBackoutUntested(slf, rp, lg, o) ==
    LET pushes == slf.remote # "None"
        lg1 == IF pushes THEN Append(lg, "push") ELSE lg
        rp1 == IF pushes THEN GitPush(rp) ELSE rp
    IN  IF ~pushes THEN Res(slf, rp, lg, Raise("AttributeError", "push"))
        ELSE IF o.push # "ok" THEN Res(slf, rp, lg1, RemoteError("push"))
        ELSE IF slf.reapply THEN backoutChanges(slf, rp1, lg1, o)
        ELSE Res(slf, rp1, lg1, NoErr)

\* lines 153-161 with a failed push undoing the commit
pushAndBackoutUndoing(slf, rp, lg, o) ==
    LET pushes == slf.remote # "None"
        lg1 == IF pushes THEN Append(lg, "push") ELSE lg
        rp1 == IF pushes THEN GitPush(rp) ELSE rp
    IN  IF pushes /\ o.push # "ok"
        THEN Res(slf, [rp EXCEPT !.upCommits = SubSeq(@, 1, Len(@) - 1)], lg1,
                 RemoteError("push"))
        ELSE IF slf.reapply THEN backoutChanges(slf, rp1, lg1, o)
        ELSE Res(slf, rp1, lg1, NoErr)

\* lines 153-161, after a successful commit
pushAndBackout(slf, rp, lg, o) ==
    LET pushes == slf.remote # "None"
        lg1 == IF pushes THEN Append(lg, "push") ELSE lg
        rp1 == IF pushes THEN GitPush(rp) ELSE rp
    IN  IF pushes /\ o.push # "ok" THEN Res(slf, rp, lg1, RemoteError("push"))
        ELSE IF slf.reapply THEN backoutChanges(slf, rp1, lg1, o)
        ELSE Res(slf, rp1, lg1, NoErr)

\* lines 129-151 with a failed git add not ending the loop's try block in
\* an exception: the commit follows
addAndCommitSwallowing(slf, rp, lg, fs, o) ==
    LET slf1 == IF fs.isNone THEN slf ELSE [slf EXCEPT !.reapply = TRUE]
        added == addLoop(rp, lg, AddTargets(fs), 1, o.addFail)
        lg2 == Append(added.ops, "commit")
    IN  IF added.repo.index = {} \/ o.commit # "ok"
        THEN Res(slf1, added.repo, lg2, CommitError("commit"))
        ELSE pushAndBackout(slf1, GitCommit(added.repo, authorstring(slf1)), lg2, o)

\* lines 129-151, after a successful stash apply
addAndCommit(slf, rp, lg, fs, o) ==
    LET slf1 == IF fs.isNone THEN slf ELSE [slf EXCEPT !.reapply = TRUE]
        added == addLoop(rp, lg, AddTargets(fs), 1, o.addFail)
        lg2 == Append(added.ops, "commit")
    IN  IF added.failed THEN Res(slf1, added.repo, added.ops, CommitError("add"))
        ELSE IF added.repo.index = {} \/ o.commit # "ok"
        THEN Res(slf1, added.repo, lg2, CommitError("commit"))
        ELSE pushAndBackout(slf1, GitCommit(added.repo, authorstring(slf1)), lg2, o)

\* applyChanges going back to the original branch when the stash apply fails
applyChangesReturning(slf, rp, lg, fs, o) ==
    LET sw == switchBranch(slf, rp, lg, slf.upstream, o.switchUp)
        lg2 == Append(sw.ops, "stash apply")
    IN  IF sw.err # NoErr THEN sw
        ELSE IF o.apply # "ok"
        THEN Res(slf, GitCheckout(GitStashApplyFailed(sw.repo, o.applyTouched),
                                  slf.thisbranch),
                 Append(lg2, "checkout " \o slf.thisbranch), StashError("stash apply"))
        ELSE addAndCommit(slf, GitStashApply(sw.repo), lg2, fs, o)

\* applyChanges
applyChanges(slf, rp, lg, fs, o) ==
    LET sw == switchBranch(slf, rp, lg, slf.upstream, o.switchUp)
        lg2 == Append(sw.ops, "stash apply")
    IN  IF sw.err # NoErr THEN sw
        ELSE IF o.apply # "ok"
        THEN Res(slf, GitStashApplyFailed(sw.repo, o.applyTouched), lg2,
                 StashError("stash apply"))
        ELSE addAndCommit(slf, GitStashApply(sw.repo), lg2, fs, o)

\* switchAndRebase with the stash dropped before the rebase
switchAndRebaseDropFirst(slf, rp, lg, o) ==
    LET sw == switchBranch(slf, rp, lg, slf.thisbranch, o.switchBack)
        lg2 == IF slf.noclear THEN sw.ops ELSE Append(sw.ops, "stash drop")
        rp2 == IF slf.noclear THEN sw.repo ELSE GitStashDrop(sw.repo)
        lg3 == IF slf.norebase THEN lg2 ELSE Append(lg2, "rebase")
    IN  IF sw.err # NoErr THEN sw
        ELSE IF ~slf.noclear /\ o.drop # "ok"
        THEN Res(slf, sw.repo, lg2, Raise("GitCommandError", "stash drop"))
        ELSE IF ~slf.norebase /\ o.rebase # "ok"
        THEN Res(slf, GitRebaseFailed(rp2, o.rebase = "conflict"), lg3,
                 ConflictError("rebase"))
        ELSE Res(slf, IF slf.norebase THEN rp2 ELSE GitRebase(rp2), lg3, NoErr)

\* switchAndRebase with the noclear option not looked at
switchAndRebaseAlwaysDrop(slf, rp, lg, o) ==
    LET sw == switchBranch(slf, rp, lg, slf.thisbranch, o.switchBack)
        lg2 == IF slf.norebase THEN sw.ops ELSE Append(sw.ops, "rebase")
        rp2 == IF slf.norebase THEN sw.repo ELSE GitRebase(sw.repo)
        lg3 == Append(lg2, "stash drop")
    IN  IF sw.err # NoErr THEN sw
        ELSE IF ~slf.norebase /\ o.rebase # "ok"
        THEN Res(slf, GitRebaseFailed(sw.repo, o.rebase = "conflict"), lg2,
                 ConflictError("rebase"))
        ELSE IF o.drop # "ok" THEN Res(slf, rp2, lg3, Raise("GitCommandError", "stash drop"))
        ELSE Res(slf, GitStashDrop(rp2), lg3, NoErr)

\* switchAndRebase checking out self.upstream instead of self.thisbranch
switchAndRebaseOntoUpstream(slf, rp, lg, o) ==
    LET sw == switchBranch(slf, rp, lg, slf.upstream, o.switchBack)
        lg2 == IF slf.norebase THEN sw.ops ELSE Append(sw.ops, "rebase")
        rp2 == IF slf.norebase THEN sw.repo ELSE GitRebase(sw.repo)
        lg3 == Append(lg2, "stash drop")
    IN  IF sw.err # NoErr THEN sw
        ELSE IF ~slf.norebase /\ o.rebase # "ok"
        THEN Res(slf, GitRebaseFailed(sw.repo, o.rebase = "conflict"), lg2,
                 ConflictError("rebase"))
        ELSE IF slf.noclear THEN Res(slf, rp2, lg2, NoErr)
        ELSE IF o.drop # "ok" THEN Res(slf, rp2, lg3, Raise("GitCommandError", "stash drop"))
        ELSE Res(slf, GitStashDrop(rp2), lg3, NoErr)

\* switchAndRebase going on to the rebase and the drop when the checkout of
\* the original branch has failed
switchAndRebaseRegardless(slf, rp, lg, o) ==
    LET sw == switchBranch(slf, rp, lg, slf.thisbranch, o.switchBack)
        lg2 == IF slf.norebase THEN sw.ops ELSE Append(sw.ops, "rebase")
        rp2 == IF slf.norebase THEN sw.repo ELSE GitRebase(sw.repo)
        lg3 == Append(lg2, "stash drop")
    IN  IF ~slf.norebase /\ o.rebase # "ok"
        THEN Res(slf, GitRebaseFailed(sw.repo, o.rebase = "conflict"), lg2,
                 ConflictError("rebase"))
        ELSE IF slf.noclear THEN Res(slf, rp2, lg2, sw.err)
        ELSE IF o.drop # "ok" THEN Res(slf, rp2, lg3, Raise("GitCommandError", "stash drop"))
        ELSE Res(slf, GitStashDrop(rp2), lg3, sw.err)

\* switchAndRebase with the stash applied again after the rebase, whatever
\* was committed upstream
switchAndRebaseReapplying(slf, rp, lg, o) ==
    LET sw == switchBranch(slf, rp, lg, slf.thisbranch, o.switchBack)
        lg2 == IF slf.norebase THEN sw.ops ELSE Append(sw.ops, "rebase")
        rp2 == IF slf.norebase THEN sw.repo ELSE GitRebase(sw.repo)
        lg3 == Append(lg2, "stash apply")
        rp3 == GitStashApply(rp2)
        lg4 == Append(lg3, "stash drop")
    IN  IF sw.err # NoErr THEN sw
        ELSE IF ~slf.norebase /\ o.rebase # "ok"
        THEN Res(slf, GitRebaseFailed(sw.repo, o.rebase = "conflict"), lg2,
                 ConflictError("rebase"))
        ELSE IF slf.noclear THEN Res(slf, rp3, lg3, NoErr)
        ELSE IF o.drop # "ok" THEN Res(slf, rp3, lg4, Raise("GitCommandError", "stash drop"))
        ELSE Res(slf, GitStashDrop(rp3), lg4, NoErr)

\* switchAndRebase
switchAndRebase(slf, rp, lg, o) ==
    LET sw == switchBranch(slf, rp, lg, slf.thisbranch, o.switchBack)
        lg2 == IF slf.norebase THEN sw.ops ELSE Append(sw.ops, "rebase")
        rp2 == IF slf.norebase THEN sw.repo ELSE GitRebase(sw.repo)
        lg3 == Append(lg2, "stash drop")
    IN  IF sw.err # NoErr THEN sw
        ELSE IF ~slf.norebase /\ o.rebase # "ok"
        THEN Res(slf, GitRebaseFailed(sw.repo, o.rebase = "conflict"), lg2,
                 ConflictError("rebase"))
        ELSE IF slf.noclear THEN Res(slf, rp2, lg2, NoErr)
        ELSE IF o.drop # "ok" THEN Res(slf, rp2, lg3, Raise("GitCommandError", "stash drop"))
        ELSE Res(slf, GitStashDrop(rp2), lg3, NoErr)

\* ----------------------------------------------------------- the outcomes
\* What each git command of a phase does: "ok", or the way it fails.  A
\* phase stops at the first command that fails, so the outcomes of the
\* commands after it are never looked at: the actions draw from the
\* outcomes in which at most one command fails.
Ok == {"ok", "giterr"}
SwitchOutcomes == {"ok", "notfound", "giterr"}
RebaseOutcomes == {"ok", "conflict", "giterr"}

AllApplyOutcomes ==
    [switchUp : SwitchOutcomes, apply : Ok, applyTouched : BOOLEAN,
     addFail : 0..MaxFiles, commit : Ok, push : Ok, reset : Ok]

ApplyAllOk ==
    [switchUp |-> "ok", apply |-> "ok", applyTouched |-> FALSE, addFail |-> 0,
     commit |-> "ok", push |-> "ok", reset |-> "ok"]

ApplyOutcomes ==
    {ApplyAllOk}
    \cup {[ApplyAllOk EXCEPT !.switchUp = x] : x \in SwitchOutcomes}
    \cup {[ApplyAllOk EXCEPT !.apply = "giterr", !.applyTouched = t] : t \in BOOLEAN}
    \cup {[ApplyAllOk EXCEPT !.addFail = k] : k \in 1..MaxFiles}
    \cup {[ApplyAllOk EXCEPT !.commit = "giterr"],
          [ApplyAllOk EXCEPT !.push = "giterr"],
          [ApplyAllOk EXCEPT !.reset = "giterr"]}

RebaseAllOk == [switchBack |-> "ok", rebase |-> "ok", drop |-> "ok"]

RebaseOutcomeRecs ==
    {[RebaseAllOk EXCEPT !.switchBack = x] : x \in SwitchOutcomes}
    \cup {[RebaseAllOk EXCEPT !.rebase = x] : x \in RebaseOutcomes}
    \cup {[RebaseAllOk EXCEPT !.drop = "giterr"]}

\* Whatever the git commands of applyChanges would each do, the call does
\* what it does under one of the outcomes in which at most one of them fails.
FirstFailureDecides ==
    pc = "apply" =>
        \A o \in AllApplyOutcomes :
            \E c \in ApplyOutcomes :
                applyChanges(self, repo, ops, files, o) =
                    applyChanges(self, repo, ops, files, c)

\* ------------------------------------------------------------ the driver
\* lines 265-266: the exception is written to stderr and the script runs
\* off its end; lines 267-269: success is printed and the exit is SUCCESS
Finish(r) ==
    /\ self' = r.self
    /\ repo' = r.repo
    /\ ops' = r.ops
    /\ err' = r.err
    /\ pc' = "exit"
    /\ out' = IF r.err = NoErr THEN "Re-scope complete." ELSE out
    /\ exitCode' = IF r.err = NoErr THEN SUCCESS ELSE FELLOFFEND

Continue(r, next) ==
    /\ self' = r.self
    /\ repo' = r.repo
    /\ ops' = r.ops
    /\ err' = r.err
    /\ pc' = next
    /\ UNCHANGED <<out, exitCode>>

\* lines 239-261: find the repository, parse the command line, resolve the
\* remote, construct the TeleScope object
Startup ==
    /\ pc = "start"
    /\ \E argfiles \in FileInputs, rarg \in RemoteArgs,
          userArg \in {"None", "U"}, cfgUser \in BOOLEAN,
          emailArg \in {"None", "E"}, cfgEmail \in BOOLEAN,
          norebase \in BOOLEAN, noclear \in BOOLEAN, pull \in BOOLEAN :
          IF ~inRepo
          THEN /\ pc' = "exit"
               /\ exitCode' = BRANCHERROR
               /\ UNCHANGED <<files, self, repo, ops, err, out>>
          ELSE IF Lower(rarg) # "none" /\ rarg \notin ConfiguredRemotes
                  THEN /\ pc' = "exit"
                       /\ exitCode' = REMOTERROR
                       /\ UNCHANGED <<files, self, repo, ops, err, out>>
                  ELSE /\ pc' = "stash"
                       /\ files' = argfiles
                       /\ self' = [thisbranch |-> repo.head,
                                   upstream |-> "upstream",
                                   remote |-> IF Lower(rarg) # "none" THEN rarg ELSE "None",
                                   user |-> getOption(cfgUser, "u", userArg),
                                   email |-> getOption(cfgEmail, "e", emailArg),
                                   norebase |-> norebase,
                                   noclear |-> noclear,
                                   reapply |-> FALSE,
                                   pull |-> pull]
                       /\ UNCHANGED <<repo, ops, err, out, exitCode>>
    /\ UNCHANGED <<inRepo, run>>

\* line 262
StashChanges ==
    /\ pc = "stash"
    /\ \E outcome \in Ok :
          LET r == stashChanges(self, repo, ops, outcome)
          IN  IF r.err = NoErr THEN Continue(r, "apply") ELSE Finish(r)
    /\ UNCHANGED <<inRepo, files, run>>

\* line 263
ApplyChanges ==
    /\ pc = "apply"
    /\ \E o \in ApplyOutcomes :
          LET r == applyChanges(self, repo, ops, files, o)
          IN  IF r.err = NoErr THEN Continue(r, "rebase") ELSE Finish(r)
    /\ UNCHANGED <<inRepo, files, run>>

\* line 264 and the exit
SwitchAndRebase ==
    /\ pc = "rebase"
    /\ \E o \in RebaseOutcomeRecs :
          Finish(switchAndRebase(self, repo, ops, o))
    /\ UNCHANGED <<inRepo, files, run>>

Next == Startup \/ StashChanges \/ ApplyChanges \/ SwitchAndRebase

Spec == Init /\ [][Next]_vars

\* The script is run again, with the same command line and in the
\* repository as the run before left it, after that run reported success:
\* lines 239-261 again, thisbranch being the branch now checked out.
Rerun ==
    /\ pc = "exit"
    /\ out = "Re-scope complete."
    /\ run < MaxRuns
    /\ run' = run + 1
    /\ pc' = "stash"
    /\ self' = [self EXCEPT !.thisbranch = repo.head, !.reapply = FALSE]
    /\ ops' = <<>>
    /\ err' = NoErr
    /\ out' = ""
    /\ exitCode' = RUNNING
    /\ UNCHANGED <<inRepo, files, repo>>

NextTwice == Next \/ Rerun

SpecTwice == Init /\ [][NextTwice]_vars

\* ------------------------------------------------------- state predicates
Last(q) == q[Len(q)]
Issued(op) == \E i \in 1..Len(ops) : ops[i] = op
IssuedBefore(a, b) == \E i, j \in 1..Len(ops) : i < j /\ ops[i] = a /\ ops[j] = b

Terminal == pc = "exit"
Succeeded == pc = "exit" /\ out = "Re-scope complete."
Failed == pc = "exit" /\ ~Succeeded

\* the entry stashChanges created is in the stash list
HasMine == \E i \in 1..Len(repo.stashList) : repo.stashList[i].mine

\* git stash saved the changes (line 88 returned, line 93 not reached)
StashingSucceeded ==
    \/ pc \in {"apply", "rebase"}
    \/ pc = "exit" /\ Issued("stash")
                   /\ err.at \notin {"No local changes to save", "stash"}

\* the run ended because a git command failed
GitFailed ==
    err.at \in {"No local changes to save", "stash", "switchBranch", "stash apply",
                "add", "commit", "push", "reset", "rebase", "stash drop"}

CommitMade == Len(repo.upCommits) = 1
PushDone == repo.pushed = Len(repo.upCommits)
OnOriginal == repo.head = self.thisbranch
RebaseDone == repo.localOnto = Len(repo.upCommits)

\* ------------------------------------------------------------------ C1
\* C1: the entry stashChanges created leaves the stash list only by the
\* final stash drop of switchAndRebase, which removes exactly that entry and
\* comes after the commit was made, the push was done (when a remote is
\* set), the original branch was checked out again and the rebase was done
\* (when not skipped); and every run that fails after the stash was made
\* ends with the entry still in the list.
C1_StashDroppedOnlyAtTheEnd ==
    [][ /\ (HasMine /\ ~HasMine') =>
              /\ pc = "rebase" /\ pc' = "exit"
              /\ Last(ops') = "stash drop"
              /\ repo.stashList[1].mine
              /\ repo'.stashList = Tail(repo.stashList)
              /\ CommitMade'
              /\ (self.remote # "None" => PushDone')
              /\ OnOriginal'
              /\ (~self.norebase => RebaseDone')
              /\ err' = NoErr
        /\ Issued("stash drop")' =>
              /\ CommitMade'
              /\ (self'.remote # "None" => PushDone')
              /\ OnOriginal'
              /\ (~self'.norebase => RebaseDone')
        /\ (pc' = "exit" /\ err' # NoErr /\ StashingSucceeded') => HasMine'
      ]_vars

C1_Witness ==
    /\ Succeeded /\ Last(ops) = "stash drop" /\ ~HasMine
    /\ self.remote # "None" /\ ~self.norebase

\* ------------------------------------------------------------------ C2
\* C2: a run started on a clean working tree ends at stashChanges with the
\* stash error "No local changes to save"; the repository is left as it
\* was and git stash is the only git command the run has issued.
C2_CleanTreeNoMutation ==
    [][ /\ pc = "start" => (repo' = repo /\ ops' = ops)
        /\ (pc = "stash" /\ repo.worktree = {}) =>
              /\ pc' = "exit"
              /\ err' = StashError("No local changes to save")
              /\ repo' = repo
              /\ ops' = <<"stash">>
      ]_vars

C2_Witness ==
    /\ pc = "exit" /\ err.at = "No local changes to save"
    /\ repo.worktree = {} /\ ops = <<"stash">>

\* ------------------------------------------------------------------ C3
\* C3: a run whose push fails ends there: the commit made on the upstream
\* branch is still there, the stash entry is still there, the push is the
\* last git command issued and the upstream branch is still checked out.
C3_PushFailureKeepsCommitAndStash ==
    (pc = "exit" /\ err.kind = "RemoteError") =>
        /\ CommitMade
        /\ HasMine
        /\ Last(ops) = "push"
        /\ ~Issued("checkout local") /\ ~Issued("rebase") /\ ~Issued("stash drop")
        /\ repo.head = self.upstream
        /\ repo.pushed = 0

C3_Witness == pc = "exit" /\ err = RemoteError("push") /\ CommitMade /\ HasMine

\* ------------------------------------------------------------------ C4
\* C4: when the rebase fails (the run ends in an error right after issuing
\* it), the original branch is left un-rebased, the stash entry is kept
\* whatever noclear is, and the error is a ConflictError.
C4_RebaseFailure ==
    [][ (pc = "rebase" /\ pc' = "exit" /\ Last(ops') = "rebase" /\ err' # NoErr) =>
            /\ repo'.localOnto = repo.localOnto
            /\ ~RebaseDone'
            /\ repo'.stashList = repo.stashList
            /\ HasMine'
            /\ err'.kind = "ConflictError"
      ]_vars

C4_Witness ==
    /\ pc = "exit" /\ err.kind = "ConflictError" /\ Last(ops) = "rebase"
    /\ ~self.noclear /\ HasMine /\ ~RebaseDone

\* ------------------------------------------------------------------ C5
\* C5: with noclear set, every run that got past stashChanges ends, in
\* success or in failure, with a non-empty stash list whose top entry is
\* the one stashChanges created.
C5_NoclearKeepsStash ==
    (pc = "exit" /\ self.noclear /\ StashingSucceeded) =>
        /\ repo.stashList # <<>>
        /\ repo.stashList[1].mine

C5_Witness == Succeeded /\ self.noclear /\ HasMine /\ Issued("rebase")

\* ------------------------------------------------------------------ C6
WithoutPush(q) == SelectSeq(q, LAMBDA x : x # "push")

\* two results are the same run, the second less the push of the first
SameLessPush(on, off) ==
    /\ off.ops = WithoutPush(on.ops)
    /\ off.err = on.err
    /\ off.repo = [on.repo EXCEPT !.pushed = 0]
    /\ off.self = [on.self EXCEPT !.remote = "None"]

\* C6: with the remote disabled no push is ever issued, and from the state
\* in which applyChanges is called, for every outcome of the git commands,
\* applyChanges and, when it returns, switchAndRebase issue the commands of
\* the run that has a remote and whose push succeeds, less the push, raise
\* the same exception (or none) and leave the same repository, up to what
\* was pushed.
C6_NoRemoteIsPushedRunLessPush ==
    /\ self.remote = "None" => (~Issued("push") /\ repo.pushed = 0)
    /\ (pc = "apply" /\ self.remote = "None") =>
          \A o \in ApplyOutcomes :
              LET off == applyChanges(self, repo, ops, files, o)
                  on == applyChanges([self EXCEPT !.remote = "origin"], repo, ops,
                                     files, [o EXCEPT !.push = "ok"])
              IN  /\ SameLessPush(on, off)
                  /\ on.err = NoErr =>
                        /\ Len(on.ops) = Len(off.ops) + 1
                        /\ \A o2 \in RebaseOutcomeRecs :
                              SameLessPush(switchAndRebase(on.self, on.repo, on.ops, o2),
                                           switchAndRebase(off.self, off.repo, off.ops, o2))

C6_Witness ==
    /\ Succeeded /\ self.remote = "None" /\ CommitMade
    /\ ~Issued("push") /\ Issued("stash drop")

\* ------------------------------------------------------------------ C7
\* C7: a run with the empty file list, a dirty working tree and no failing
\* git command ends in success with exit status 0, the original branch
\* checked out and rebased, one new upstream commit that leaves nothing
\* uncommitted, and the stash entry gone unless noclear is set.
C7_EmptySelectionCompletes ==
    (/\ pc = "exit" /\ ~files.isNone /\ files.list = <<>>
     /\ StashingSucceeded /\ ~GitFailed /\ ~self.norebase) =>
        /\ Succeeded
        /\ exitCode = SUCCESS
        /\ OnOriginal
        /\ RebaseDone
        /\ CommitMade
        /\ repo.worktree = {}
        /\ (~self.noclear => ~HasMine)

\* ------------------------------------------------------------------ C8
\* C8: a partial run whose commit was made and in which no git command
\* failed has reset the index and then discarded the working changes on
\* the upstream checkout, so that nothing uncommitted is left there, the
\* commit holds selected paths only, and the run went on to check the
\* original branch out.
C8_BackoutCleansUpstream ==
    (/\ pc = "exit" /\ ~files.isNone /\ files.list # <<>>
     /\ CommitMade /\ ~GitFailed) =>
        /\ IssuedBefore("reset", "checkout -f")
        /\ repo.worktree = {} /\ repo.index = {}
        /\ repo.upCommits[1].paths \subseteq Range(files.list)
        /\ Issued("checkout local")

\* ------------------------------------------------------------------ C9
\* No run given a file list ends in success: backoutChanges always raises.
FileListRunNeverSucceeds == ~(Succeeded /\ ~files.isNone)

\* ----------------------------------------------------------------- C10
\* C10: the exit status is SUCCESS exactly when the run succeeded, and a
\* failed run exits with the status of its error's category.
C10_ExitStatusTellsOutcome ==
    pc = "exit" =>
        /\ exitCode = SUCCESS <=> Succeeded
        /\ err.kind = "StashError" => exitCode = STASHERROR
        /\ err.kind = "CommitError" => exitCode = COMMITERROR
        /\ err.kind = "RemoteError" => exitCode = REMOTERROR
        /\ err.kind = "ConflictError" => exitCode = CONFLICTS
        /\ err.at = "switchBranch" => exitCode = BRANCHERROR

\* ----------------------------------------------------------------- C11
\* C11: with pull set and a remote configured, a run that has issued the
\* commit has issued a pull before it and after the stash apply.
C11_PullBeforeCommit ==
    (self.pull /\ self.remote # "None" /\ Issued("commit")) =>
        /\ IssuedBefore("stash apply", "pull")
        /\ IssuedBefore("pull", "commit")

\* ----------------------------------------------------------------- C12
\* C12: the author of the commit is "user <email>" when both are resolved
\* and the one resolved value when only one is; when neither is resolved
\* the commit is never issued and the run that got to it ends in a
\* CommitError.
C12_AuthorOrIdentityMissing ==
    /\ CommitMade =>
          /\ repo.upCommits[1].author # "None"
          /\ (self.user # "None" /\ self.email # "None") =>
                repo.upCommits[1].author = self.user \o " <" \o self.email \o ">"
          /\ (self.user # "None" /\ self.email = "None") =>
                repo.upCommits[1].author = self.user
          /\ (self.user = "None" /\ self.email # "None") =>
                repo.upCommits[1].author = self.email
    /\ (pc # "start" /\ self.user = "None" /\ self.email = "None") =>
          ~Issued("commit")

Order ==
    <<"stash", "checkout upstream", "stash apply", "add", "commit", "push",
      "reset", "checkout local", "rebase", "stash drop">>

Rank(op) == CHOOSE k \in 1..Len(Order) : Order[k] = op

Count(op) == Cardinality({i \in 1..Len(ops) : ops[i] = op})

\* the git command whose failure an exception records
FailedCommand ==
    CASE err.at = "No local changes to save" -> "stash"
      [] err.at = "active_branch" -> "reset"
      [] OTHER -> err.at

StagedAtCommit == IF CommitMade THEN repo.upCommits[1].paths ELSE repo.index

\* C15: once the files are staged, with an empty file selection a single
\* git add has staged the whole tree and reapply is false, with a
\* non-empty one git add was issued once per selected file and reapply is
\* true: reapply is true exactly when the selection is non-empty.
C15_ReapplyIffSelection ==
    Issued("commit") =>
        /\ self.reapply <=> files.list # <<>>
        /\ files.list = <<>> =>
              /\ Count("add") = 1
              /\ HasMine => StagedAtCommit = repo.stashList[1].changes
        /\ files.list # <<>> => Count("add") = Len(files.list)

\* ----------------------------------------------------------------- C16
\* C16: when applyChanges ends the run at the checkout of upstream, the
\* repository, stash entry included, is as it was and nothing follows the
\* checkout; when it ends the run at the stash apply, the stash list is as
\* it was, upstream is checked out and the stash apply is the last command.
C16_SwitchOrApplyFailure ==
    [][ (pc = "apply" /\ pc' = "exit") =>
            /\ ~Issued("stash apply")' =>
                  /\ err' # NoErr
                  /\ repo' = repo
                  /\ HasMine'
                  /\ ops' \in {ops, Append(ops, "checkout upstream")}
            /\ (Issued("stash apply")' /\ ~Issued("add")' /\ ~Issued("commit")') =>
                  /\ err'.kind = "StashError"
                  /\ repo'.stashList = repo.stashList
                  /\ HasMine'
                  /\ repo'.head = self.upstream
                  /\ ops' = ops \o <<"checkout upstream", "stash apply">>
      ]_vars

C16_Witness ==
    /\ pc = "exit" /\ err = StashError("stash apply")
    /\ repo.head = "upstream" /\ HasMine /\ Last(ops) = "stash apply"

\* ----------------------------------------------------------------- C17
\* C17: when switchAndRebase ends with the original branch not checked
\* out, the run has ended in the error of the failed checkout, which was
\* tried at most once, with no rebase and no stash drop issued and the
\* repository as applyChanges left it: upstream checked out, the commit
\* made, the stash entry kept.
C17_SwitchBackFailure ==
    [][ (pc = "rebase" /\ pc' = "exit" /\ repo'.head # self.thisbranch) =>
            /\ err' # NoErr /\ err'.at = "switchBranch"
            /\ repo' = repo
            /\ repo'.head = self.upstream
            /\ CommitMade'
            /\ HasMine'
            /\ ops' \in {ops, Append(ops, "checkout local")}
      ]_vars

C17_Witness ==
    /\ pc = "exit" /\ err.at = "switchBranch" /\ Last(ops) = "checkout local"
    /\ repo.head = "upstream" /\ CommitMade /\ HasMine

\* ----------------------------------------------------------------- C18
\* C18: a run that ends at a failed add, commit or push has reset the
\* index and discarded the working changes of the upstream checkout, and
\* has kept the stash entry.
C18_RollbackOnFailure ==
    (pc = "exit" /\ err.at \in {"add", "commit", "push"}) =>
        /\ Issued("reset")
        /\ repo.worktree = {} /\ repo.index = {}
        /\ HasMine

\* ----------------------------------------------------------------- C19
\* C19: a run that ends because a git command failed ends in the typed
\* error of the step that failed.
C19_FailuresAreTyped ==
    (pc = "exit" /\ GitFailed) =>
        /\ err.kind \in {"BranchError", "StashError", "CommitError", "RemoteError",
                         "ConflictError"}
        /\ err.at \in {"No local changes to save", "stash", "stash apply"} =>
              err.kind = "StashError"
        /\ err.at = "switchBranch" => err.kind = "BranchError"
        /\ err.at \in {"add", "commit"} => err.kind = "CommitError"
        /\ err.at = "push" => err.kind = "RemoteError"
        /\ err.at = "rebase" => err.kind = "ConflictError"

\* ----------------------------------------------------------------- C20
\* C20: thisbranch is the branch checked out at construction and never
\* changes; a run ends on it when it ends at stashChanges, at the checkout
\* of upstream, or after the checkout of the original branch (failed
\* rebase, failed drop, success), and ends on upstream when it ends at the
\* stash apply, add, commit, push, backout or the checkout of the original
\* branch.
C20_BranchAtTermination ==
    [][ /\ pc # "start" => self'.thisbranch = self.thisbranch
        /\ (pc = "start" /\ pc' = "stash") => self'.thisbranch = repo.head
        /\ (pc # "start" /\ pc' = "exit") =>
              /\ (pc = "stash" \/ (pc = "apply" /\ err'.at = "switchBranch")) =>
                    repo'.head = self'.thisbranch
              /\ (err'.at \in {"rebase", "stash drop"} \/ err' = NoErr) =>
                    repo'.head = self'.thisbranch
              /\ \/ err'.at \in {"stash apply", "add", "commit", "push", "reset",
                                 "active_branch"}
                 \/ (pc = "rebase" /\ err'.at = "switchBranch")
                 => (repo'.head = self'.upstream /\ repo'.head # self'.thisbranch)
      ]_vars

C20_Witness ==
    /\ pc = "exit" /\ err.at = "push" /\ repo.head = "upstream"
    /\ self.thisbranch = "local"

====
